---- MODULE Spec2Model ----
(***************************************************************************)
(* The synchronization engine of tango (src/src/lib.rs): the planner       *)
(* (gather_inputs / check_transform), the generate phase, the concurrent   *)
(* update check and the stamp file, over a tree of (x.rs, x.md) pairs.     *)
(*                                                                         *)
(* A timestamp is a natural number of ticks; TicksPerMs ticks make one     *)
(* millisecond, so that the nanosecond view (the number itself) and the    *)
(* millisecond view (ToMs) of the code are both present.                   *)
(***************************************************************************)
EXTENDS Integers, Sequences, FiniteSets, TLC

\* ------------------------------------------------------------------ bounds

\* Timestamps are the ticks TicksPerMs..MaxTick (the first millisecond is 1, so
\* that every timestamp passes the code's `assert!(source_time > 0)`).
MaxTick == 6

\* Sub-millisecond resolution of a timestamp (Timestamp::to_ms divides the
\* nanoseconds by 1_000_000; two sub-millisecond values are enough to tell
\* "equal", "older within the same millisecond" and "older by a millisecond").
TicksPerMs == 2

\* At most MaxRaces external writes land while the engine is running.
MaxRaces == 1

\* ------------------------------------------------------------- data model

\* The pairs (x.rs, x.md) of the tree, in the order WalkDir yields them.
WalkOrder == <<"hello", "lib">>

Pairs == {WalkOrder[n] : n \in 1..Len(WalkOrder)}
Kinds == {"rs", "md"}
Files == Pairs \X Kinds

\* MtimeResult::NonExistant; MtimeResult::Modified(t) is the timestamp t itself.
NonExistant == 0

\* Option::None for orig_stamp and newest_stamp.
None == 0

Times == TicksPerMs .. MaxTick

\* The stamp file, as it appears in the write set beside the tracked files.
STAMP == <<"tango", "stamp">>

\* Timestamp::to_ms: the timestamp truncated to milliseconds.
ToMs(t) == t \div TicksPerMs

\* RsPath::to_md / MdPath::to_rs: the counterpart of a file.
Other(k) == IF k = "rs" THEN "md" ELSE "rs"

Target(f) == <<f[1], Other(f[2])>>

VARIABLES
    fs,           \* on-disk mtime of every tracked file (NonExistant if absent)
    stamp,        \* on-disk mtime of tango.stamp (NonExistant if absent)
    pc,           \* position of the engine
    i,            \* position inside the current loop
    orig_stamp,   \* Context.orig_stamp: None or the stamp's mtime at start
    src_inputs,   \* Context.src_inputs
    lit_inputs,   \* Context.lit_inputs
    newest_stamp, \* Context.newest_stamp
    result,       \* what the run returned (kind "none" while it runs)
    lastOk,       \* the previous run returned Ok(())
    lastRace,     \* the path of the previous run's ConcurrentUpdate (<<>> if none)
    edited,       \* while lastOk: files modified externally since that run returned
    hist,         \* the run's starting point: disk state, edits and previous outcome
    written,      \* files created or re-timed by the engine in this run, in order
    touched,      \* external writes that landed while this run was going on
    races,        \* how many external writes have landed during runs so far
    warned,       \* literate origins whose conversion gave warnings in this run
    links,        \* files whose directory entry is a symbolic link to nothing
    log           \* what the planner decided per transform in this run

vars == <<fs, stamp, pc, i, orig_stamp, src_inputs, lit_inputs, newest_stamp,
          result, lastOk, lastRace, edited, hist, written, touched, races, warned,
          links, log>>

ctx == <<orig_stamp, src_inputs, lit_inputs, newest_stamp>>

NoResult == [kind |-> "none"]

NoHist == [prevOk |-> FALSE, prevRace |-> <<>>, edited |-> {},
           fs0 |-> [f \in Files |-> NonExistant], stamp0 |-> NonExistant]

\* ------------------------------------------------------- the environment

\* The wall clock, as File::create stamps a new file: it is not behind any
\* mtime on disk.
NowTimes == {t \in Times : (\A f \in Files : fs[f] <= t) /\ stamp <= t}

\* filetime::set_file_times(path, t, t): sets the mtime to t, or to t
\* truncated to milliseconds where the primitive is that coarse.
SetFileTimes(t) == {t, ToMs(t) * TicksPerMs}

\* md2rs::Converter::convert on a literate file: Ok(()), or
\* Err(Exception::Warnings(..)) when an encoded URL does not match.
Md2RsResults == {"Ok", "Warnings"}

\* ----------------------------------------------------- Context::check_transform

\* check_transform comparing at nanosecond precision only.
CheckTransformHighPrecisionOnly(s_mod, target_time, stamp_opt) ==
    IF target_time = NonExistant THEN [res |-> "Needed", warn |-> "none"]
    ELSE IF target_time >= s_mod THEN [res |-> "Unneeded", warn |-> "none"]
    ELSE IF stamp_opt = None THEN [res |-> "NoTangoStampExists", warn |-> "none"]
    ELSE IF stamp_opt < target_time
         THEN [res |-> "TangoStampOlderThanTarget", warn |-> "none"]
         ELSE [res |-> "Needed", warn |-> "none"]

\* check_transform without the stamp: an older target is always overwritten.
CheckTransformNoStampGuard(s_mod, target_time, stamp_opt) ==
    IF target_time = NonExistant THEN [res |-> "Needed", warn |-> "none"]
    ELSE IF target_time > s_mod THEN [res |-> "Unneeded", warn |-> "none"]
    ELSE IF ToMs(s_mod) = ToMs(target_time)
         THEN [res |-> "Unneeded", warn |-> "source_target_ns"]
         ELSE [res |-> "Needed", warn |-> "none"]

CheckTransform(s_mod, target_time, stamp_opt) ==
    IF target_time = NonExistant THEN [res |-> "Needed", warn |-> "none"]
    ELSE LET t_mod == target_time
             same_age_at_low_precision == ToMs(s_mod) = ToMs(t_mod)
         IN  IF t_mod > s_mod THEN [res |-> "Unneeded", warn |-> "none"]
             ELSE IF same_age_at_low_precision
                  THEN [res |-> "Unneeded", warn |-> "source_target_ns"]
             ELSE IF stamp_opt = None
                  THEN [res |-> "NoTangoStampExists", warn |-> "none"]
             ELSE LET older_at_high_precision == stamp_opt < t_mod
                      older_at_low_precision == ToMs(stamp_opt) < ToMs(t_mod)
                  IN  IF older_at_low_precision
                      THEN [res |-> "TangoStampOlderThanTarget", warn |-> "none"]
                      ELSE IF older_at_high_precision /\ ~older_at_low_precision
                           THEN [res |-> "Needed", warn |-> "stamp_target_ns"]
                           ELSE [res |-> "Needed", warn |-> "none"]

\* Context::update_newest_time
UpdateNewestTime(newest, new_time) ==
    IF newest # None
    THEN (IF new_time > newest THEN new_time ELSE newest)
    ELSE new_time

\* Transforms::transform: the origin's mtime and the target's MtimeResult, as read now.
Transform(f) ==
    [original |-> f, source_time |-> fs[f], target_time |-> fs[Target(f)]]

\* ------------------------------------------------------------------- Init

Init ==
    /\ fs \in [Files -> {NonExistant} \cup Times]
    /\ stamp = NonExistant
    /\ pc = "idle"
    /\ i = 0
    /\ orig_stamp = None
    /\ src_inputs = <<>>
    /\ lit_inputs = <<>>
    /\ newest_stamp = None
    /\ result = NoResult
    /\ lastOk = FALSE
    /\ lastRace = <<>>
    /\ edited = {}
    /\ hist = NoHist
    /\ written = <<>>
    /\ touched = {}
    /\ races = 0
    /\ warned = {}
    /\ links = {}
    /\ log = <<>>

\* ------------------------------------------------------------ the engine

\* An engine that makes sure the stamp file exists before it plans.
BeginCreatingStamp ==
    /\ pc = "idle"
    /\ pc' = "gather_rs"
    /\ i' = 1
    /\ orig_stamp' = stamp
    /\ src_inputs' = <<>>
    /\ lit_inputs' = <<>>
    /\ newest_stamp' = None
    /\ result' = NoResult
    /\ hist' = [prevOk |-> lastOk, prevRace |-> lastRace, edited |-> edited,
                fs0 |-> fs, stamp0 |-> stamp]
    /\ IF stamp = NonExistant
       THEN /\ \E now \in NowTimes : stamp' = now
            /\ written' = <<STAMP>>
       ELSE /\ UNCHANGED stamp
            /\ written' = <<>>
    /\ touched' = {}
    /\ warned' = {}
    /\ log' = <<>>
    /\ UNCHANGED <<fs, lastOk, lastRace, edited, races, links>>

\* process_root: the stamp decides between process_with_stamp and
\* process_without_stamp; Context::new records the stamp's mtime.
Begin ==
    /\ pc = "idle"
    /\ pc' = "gather_rs"
    /\ i' = 1
    /\ orig_stamp' = stamp
    /\ src_inputs' = <<>>
    /\ lit_inputs' = <<>>
    /\ newest_stamp' = None
    /\ result' = NoResult
    /\ hist' = [prevOk |-> lastOk, prevRace |-> lastRace, edited |-> edited,
                fs0 |-> fs, stamp0 |-> stamp]
    /\ written' = <<>>
    /\ touched' = {}
    /\ warned' = {}
    /\ log' = <<>>
    /\ UNCHANGED <<fs, stamp, lastOk, lastRace, edited, races, links>>

\* The run returns `r` from where it stands.
Return(r) ==
    /\ result' = r
    /\ pc' = "done"
    /\ i' = 0

\* A planner that enqueues every transform check_transform did not refuse,
\* the unneeded ones too.
GatherStepEnqueueAll(k, next) ==
    IF i > Len(WalkOrder)
    THEN /\ pc' = next
         /\ i' = 1
         /\ UNCHANGED <<src_inputs, lit_inputs, newest_stamp, result, log>>
    ELSE LET f == <<WalkOrder[i], k>> IN
         IF fs[f] = NonExistant /\ f \notin links
         THEN /\ i' = i + 1
              /\ UNCHANGED <<pc, src_inputs, lit_inputs, newest_stamp, result, log>>
         ELSE IF fs[f] = NonExistant
         THEN /\ Return([kind |-> "panic"])
              /\ UNCHANGED <<src_inputs, lit_inputs, newest_stamp, log>>
         ELSE LET t == Transform(f)
                  c == CheckTransform(t.source_time, t.target_time, orig_stamp)
              IN  /\ log' = Append(log, [original |-> f, source_time |-> t.source_time,
                                          target_time |-> t.target_time,
                                          res |-> c.res, warn |-> c.warn])
                  /\ IF c.res \in {"Needed", "Unneeded"}
                     THEN /\ newest_stamp' = UpdateNewestTime(newest_stamp, t.source_time)
                          /\ src_inputs' = IF k = "rs" THEN Append(src_inputs, t) ELSE src_inputs
                          /\ lit_inputs' = IF k = "md" THEN Append(lit_inputs, t) ELSE lit_inputs
                          /\ i' = i + 1
                          /\ UNCHANGED <<pc, result>>
                     ELSE /\ Return([kind |-> "CheckInputError", error |-> c.res, original |-> f])
                          /\ UNCHANGED <<src_inputs, lit_inputs, newest_stamp>>

\* One iteration of a planning loop of gather_inputs over the files of kind k:
\* transform, check_transform, then push_src / push_lit or the error return.
\* The walk yields the files that exist and the links to nothing; for such a
\* link warn_if_nonexistant prints its warning and returns Ok, and transform
\* panics on MtimeResult::NonExistant.
GatherStep(k, next) ==
    IF i > Len(WalkOrder)
    THEN /\ pc' = next
         /\ i' = 1
         /\ UNCHANGED <<src_inputs, lit_inputs, newest_stamp, result, log>>
    ELSE LET f == <<WalkOrder[i], k>> IN
         IF fs[f] = NonExistant /\ f \notin links
         THEN /\ i' = i + 1
              /\ UNCHANGED <<pc, src_inputs, lit_inputs, newest_stamp, result, log>>
         ELSE IF fs[f] = NonExistant
         THEN /\ Return([kind |-> "panic"])
              /\ UNCHANGED <<src_inputs, lit_inputs, newest_stamp, log>>
         ELSE LET t == Transform(f)
                  c == CheckTransform(t.source_time, t.target_time, orig_stamp)
              IN  /\ log' = Append(log, [original |-> f, source_time |-> t.source_time,
                                          target_time |-> t.target_time,
                                          res |-> c.res, warn |-> c.warn])
                  /\ IF c.res = "Needed"
                     THEN /\ newest_stamp' = UpdateNewestTime(newest_stamp, t.source_time)
                          /\ src_inputs' = IF k = "rs" THEN Append(src_inputs, t) ELSE src_inputs
                          /\ lit_inputs' = IF k = "md" THEN Append(lit_inputs, t) ELSE lit_inputs
                          /\ i' = i + 1
                          /\ UNCHANGED <<pc, result>>
                     ELSE IF c.res = "Unneeded"
                     THEN /\ i' = i + 1
                          /\ UNCHANGED <<pc, src_inputs, lit_inputs, newest_stamp, result>>
                     ELSE /\ Return([kind |-> "CheckInputError", error |-> c.res, original |-> f])
                          /\ UNCHANGED <<src_inputs, lit_inputs, newest_stamp>>

\* A single-pass planner: a source-to-literate transform found needed is
\* generated at once, before the rest of the tree has been planned.
GatherRsGenerating ==
    /\ pc = "gather_rs"
    /\ GatherStep("rs", "gather_md")
    /\ IF Len(src_inputs') > Len(src_inputs)
       THEN LET t == src_inputs'[Len(src_inputs')]
                g == Target(t.original)
            IN  /\ \E m \in SetFileTimes(t.source_time) : fs' = [fs EXCEPT ![g] = m]
                /\ written' = Append(written, g)
       ELSE UNCHANGED <<fs, written>>
    /\ UNCHANGED <<stamp, orig_stamp, lastOk, lastRace, edited, hist, touched, races, links, warned>>

GatherRs ==
    /\ pc = "gather_rs"
    /\ GatherStep("rs", "gather_md")
    /\ UNCHANGED <<fs, stamp, orig_stamp, lastOk, lastRace, edited, hist, written, touched, races, links, warned>>

GatherMd ==
    /\ pc = "gather_md"
    /\ GatherStep("md", "generate_src")
    /\ UNCHANGED <<fs, stamp, orig_stamp, lastOk, lastRace, edited, hist, written, touched, races, links, warned>>

\* A target that is written and then not backdated keeps the clock's time.
BackdateForgotten(source_time) == NowTimes

\* generate_content's backdating of a target it has just written:
\* set_file_times(&generate.0, source_time.to_filetime(), source_time.to_filetime()).
Backdate(source_time) == SetFileTimes(source_time)

\* generate_content, first loop: one source-to-literate transform. File::open
\* on an origin that is no longer there returns an error.
GenerateSrc ==
    /\ pc = "generate_src"
    /\ IF i > Len(src_inputs)
       THEN /\ pc' = "generate_lit"
            /\ i' = 1
            /\ UNCHANGED <<fs, written, result>>
       ELSE LET t == src_inputs[i]
                g == Target(t.original)
            IN  IF fs[t.original] = NonExistant
                THEN /\ Return([kind |-> "IoError", at |-> pc])
                     /\ UNCHANGED <<fs, written>>
                ELSE /\ \E m \in Backdate(t.source_time) : fs' = [fs EXCEPT ![g] = m]
                     /\ written' = Append(written, g)
                     /\ i' = i + 1
                     /\ UNCHANGED <<pc, result>>
    /\ UNCHANGED <<stamp, ctx, lastOk, lastRace, edited, hist, touched, races, links, warned, log>>

\* The second loop of generate_content without its read-back of the two mtimes.
GenerateLitUnchecked ==
    /\ pc = "generate_lit"
    /\ IF i > Len(lit_inputs)
       THEN /\ pc' = "check_input_timestamps"
            /\ i' = 1
            /\ UNCHANGED <<fs, written, result, warned>>
       ELSE LET t == lit_inputs[i]
                g == Target(t.original)
            IN  IF fs[t.original] = NonExistant
                THEN /\ Return([kind |-> "IoError", at |-> pc])
                     /\ UNCHANGED <<fs, written, warned>>
                ELSE
                /\ written' = Append(written, g)
                /\ \E conv \in Md2RsResults :
                     IF conv = "Warnings"
                     THEN /\ \E now \in NowTimes : fs' = [fs EXCEPT ![g] = now]
                          /\ warned' = warned \cup {t.original}
                          /\ Return([kind |-> "Warnings"])
                     ELSE /\ \E m \in Backdate(t.source_time) : fs' = [fs EXCEPT ![g] = m]
                          /\ i' = i + 1
                          /\ UNCHANGED <<pc, result, warned>>
    /\ UNCHANGED <<stamp, ctx, lastOk, lastRace, edited, hist, touched, races, links, log>>

\* generate_content, second loop: one literate-to-source transform, with its
\* read-back of both mtimes. File::open on an origin that is no longer there
\* returns an error.
GenerateLit ==
    /\ pc = "generate_lit"
    /\ IF i > Len(lit_inputs)
       THEN /\ pc' = "check_input_timestamps"
            /\ i' = 1
            /\ UNCHANGED <<fs, written, result, warned>>
       ELSE LET t == lit_inputs[i]
                g == Target(t.original)
            IN  IF fs[t.original] = NonExistant
                THEN /\ Return([kind |-> "IoError", at |-> pc])
                     /\ UNCHANGED <<fs, written, warned>>
                ELSE
                /\ written' = Append(written, g)
                /\ \E conv \in Md2RsResults :
                     IF conv = "Warnings"
                     THEN /\ \E now \in NowTimes : fs' = [fs EXCEPT ![g] = now]
                          /\ warned' = warned \cup {t.original}
                          /\ Return([kind |-> "Warnings"])
                     ELSE \E m \in Backdate(t.source_time) :
                          /\ fs' = [fs EXCEPT ![g] = m]
                          /\ UNCHANGED warned
                          /\ IF ToMs(fs[t.original]) = ToMs(m)
                             THEN /\ i' = i + 1
                                  /\ UNCHANGED <<pc, result>>
                             ELSE Return([kind |-> "panic"])
    /\ UNCHANGED <<stamp, ctx, lastOk, lastRace, edited, hist, touched, races, links, log>>

\* The first scheduled origin, src_inputs before lit_inputs, whose mtime is
\* no longer the one captured at planning time (0 if there is none).
Scheduled == src_inputs \o lit_inputs

Changed == {n \in 1..Len(Scheduled) :
               /\ fs[Scheduled[n].original] # NonExistant
               /\ fs[Scheduled[n].original] # Scheduled[n].source_time}

FirstChanged == IF Changed = {} THEN 0
                ELSE CHOOSE n \in Changed : \A m \in Changed : n <= m

\* check_input_timestamps
CheckInputTimestamps ==
    /\ pc = "check_input_timestamps"
    /\ IF FirstChanged # 0
       THEN LET t == Scheduled[FirstChanged]
            IN  Return([kind |-> "ConcurrentUpdate", path_buf |-> t.original,
                        old_time |-> t.source_time, new_time |-> fs[t.original]])
       ELSE /\ pc' = IF orig_stamp = None THEN "create_stamp" ELSE "adjust_stamp_timestamp"
            /\ UNCHANGED <<i, result>>
    /\ UNCHANGED <<fs, stamp, ctx, lastOk, lastRace, edited, hist, written, touched, races, links, warned, log>>

\* create_stamp (process_without_stamp only): File::create(STAMP).
CreateStamp ==
    /\ pc = "create_stamp"
    /\ \E now \in NowTimes : stamp' = now
    /\ written' = Append(written, STAMP)
    /\ pc' = "adjust_stamp_timestamp"
    /\ UNCHANGED <<fs, i, ctx, result, lastOk, lastRace, edited, hist, touched, races, links, warned, log>>

\* An adjust_stamp_timestamp that, with nothing scheduled, brings the stamp
\* to the present time.
AdjustStampTimestampTouching ==
    /\ pc = "adjust_stamp_timestamp"
    /\ IF newest_stamp # None
       THEN \E m \in SetFileTimes(newest_stamp) : stamp' = m
       ELSE \E now \in NowTimes : stamp' = now
    /\ written' = Append(written, STAMP)
    /\ Return([kind |-> "Ok"])
    /\ UNCHANGED <<fs, ctx, lastOk, lastRace, edited, hist, touched, races, links, warned, log>>

\* adjust_stamp_timestamp, then Ok(()).
AdjustStampTimestamp ==
    /\ pc = "adjust_stamp_timestamp"
    /\ IF newest_stamp # None
       THEN /\ \E m \in SetFileTimes(newest_stamp) : stamp' = m
            /\ written' = Append(written, STAMP)
       ELSE UNCHANGED <<stamp, written>>
    /\ Return([kind |-> "Ok"])
    /\ UNCHANGED <<fs, ctx, lastOk, lastRace, edited, hist, touched, races, links, warned, log>>

\* The process ends; the Context is dropped.
Exit ==
    /\ pc = "done"
    /\ pc' = "idle"
    /\ lastOk' = (result.kind = "Ok")
    /\ lastRace' = IF result.kind = "ConcurrentUpdate" THEN result.path_buf ELSE <<>>
    /\ orig_stamp' = None
    /\ src_inputs' = <<>>
    /\ lit_inputs' = <<>>
    /\ newest_stamp' = None
    /\ result' = NoResult
    /\ hist' = NoHist
    /\ written' = <<>>
    /\ touched' = {}
    /\ warned' = {}
    /\ log' = <<>>
    /\ edited' = {}
    /\ UNCHANGED <<fs, stamp, i, races, links>>

\* ------------------------------------------------------- external writers

\* Between two runs somebody creates or modifies file f, leaving it with mtime t.
Edit ==
    /\ pc = "idle"
    /\ \E f \in Files, t \in Times :
         /\ t # fs[f]
         /\ fs' = [fs EXCEPT ![f] = t]
         /\ edited' = IF lastOk THEN edited \cup {f} ELSE {}
    /\ lastRace' = <<>>
    /\ UNCHANGED <<stamp, pc, i, ctx, result, lastOk, hist, written, touched, races, links,
                   warned, log>>

\* While the engine is between its first planning step and its verification,
\* an external writer modifies the existing file f, leaving it with mtime t.
Touch ==
    /\ pc \in {"gather_rs", "gather_md", "generate_src", "generate_lit",
               "check_input_timestamps"}
    /\ races < MaxRaces
    /\ \E f \in Files, t \in Times :
         /\ fs[f] # NonExistant
         /\ t # fs[f]
         /\ fs' = [fs EXCEPT ![f] = t]
         /\ touched' = touched \cup
                {[file |-> f, old_time |-> fs[f], new_time |-> t, at |-> pc,
                  scheduled |-> \E n \in 1..Len(Scheduled) : Scheduled[n].original = f]}
    /\ races' = races + 1
    /\ UNCHANGED <<stamp, pc, i, ctx, result, lastOk, lastRace, edited, hist, written, warned,
                   log, links>>

Run ==
    \/ Begin
    \/ GatherRs
    \/ GatherMd
    \/ GenerateSrc
    \/ GenerateLit
    \/ CheckInputTimestamps
    \/ CreateStamp
    \/ AdjustStampTimestamp
    \/ Exit

Next == Run \/ Edit

Spec == Init /\ [][Next]_vars

\* The engine with an external writer at work during its runs.
NextC == Run \/ Touch

SpecC == Init /\ [][NextC]_vars

\* ------------------------------------------------- a tree that changes shape

\* While the engine is between its first planning step and its verification,
\* an external writer removes the file f.
Delete ==
    /\ pc \in {"gather_rs", "gather_md", "generate_src", "generate_lit",
               "check_input_timestamps"}
    /\ races < MaxRaces
    /\ \E f \in Files :
         /\ fs[f] # NonExistant
         /\ fs' = [fs EXCEPT ![f] = NonExistant]
         /\ touched' = touched \cup
                {[file |-> f, old_time |-> fs[f], new_time |-> NonExistant, at |-> pc,
                  scheduled |-> \E n \in 1..Len(Scheduled) : Scheduled[n].original = f]}
    /\ races' = races + 1
    /\ UNCHANGED <<stamp, pc, i, ctx, result, lastOk, lastRace, edited, hist, written, warned,
                   log, links>>

\* Between two runs a tool leaves, under the name of the absent file f, a
\* symbolic link to something that does not exist.
Link ==
    /\ pc = "idle"
    /\ races < MaxRaces
    /\ \E f \in Files :
         /\ fs[f] = NonExistant
         /\ f \notin links
         /\ links' = links \cup {f}
         /\ edited' = IF lastOk THEN edited \cup {f} ELSE {}
    /\ races' = races + 1
    /\ lastRace' = <<>>
    /\ UNCHANGED <<fs, stamp, pc, i, ctx, result, lastOk, hist, written, touched, warned, log>>

\* The engine over a tree from which files vanish and in which dangling
\* links appear.
NextD == Run \/ Delete \/ Link

SpecD == Init /\ [][NextD]_vars

\* ------------------------------------------------------ failing system calls

\* The planner's walk, File::open or metadata call fails: try! returns
\* Err(Error::IoError(..)) from gather_inputs.
GatherFails ==
    /\ pc \in {"gather_rs", "gather_md"}
    /\ Return([kind |-> "IoError", at |-> pc])
    /\ UNCHANGED <<fs, stamp, ctx, lastOk, lastRace, edited, hist, written, touched,
                   races, links, warned, log>>

\* A call of generate_content fails on the transform at hand: File::open
\* before anything is written, or the conversion or set_file_times after
\* File::create has made the target anew.
GenerateFails ==
    /\ pc \in {"generate_src", "generate_lit"}
    /\ LET queue == IF pc = "generate_src" THEN src_inputs ELSE lit_inputs IN
       /\ i <= Len(queue)
       /\ \/ UNCHANGED <<fs, written>>
          \/ /\ \E now \in NowTimes :
                   fs' = [fs EXCEPT ![Target(queue[i].original)] = now]
             /\ written' = Append(written, Target(queue[i].original))
    /\ Return([kind |-> "IoError", at |-> pc])
    /\ UNCHANGED <<stamp, ctx, lastOk, lastRace, edited, hist, touched, races, links, warned, log>>

\* create_stamp fails: File::create(STAMP) returns an error.
CreateStampFails ==
    /\ pc = "create_stamp"
    /\ Return([kind |-> "IoError", at |-> pc])
    /\ UNCHANGED <<fs, stamp, ctx, lastOk, lastRace, edited, hist, written, touched,
                   races, links, warned, log>>

\* adjust_stamp_timestamp fails: set_file_times(STAMP, ..) returns an error,
\* which is returned as Error::IoError.
AdjustStampTimestampFails ==
    /\ pc = "adjust_stamp_timestamp"
    /\ newest_stamp # None
    /\ Return([kind |-> "IoError", at |-> pc])
    /\ UNCHANGED <<fs, stamp, ctx, lastOk, lastRace, edited, hist, written, touched,
                   races, links, warned, log>>

Fault ==
    \/ GatherFails
    \/ GenerateFails
    \/ CreateStampFails
    \/ AdjustStampTimestampFails

\* The engine between external edits, with system calls that may fail.
NextF == Run \/ Edit \/ Fault

SpecF == Init /\ [][NextF]_vars

\* ------------------------------------------------------ reading a run's end

\* The run has returned and its Context is still at hand.
Done == pc = "done"

Ok == result.kind = "Ok"

CheckInputError(kind) == result.kind = "CheckInputError" /\ result.error = kind

\* What was on disk when the run started.
Existed(f) == hist.fs0[f] # NonExistant

\* The engine wrote nothing: no file and no stamp was created, truncated or re-timed.
WroteNothing == written = <<>> /\ fs = hist.fs0 /\ stamp = hist.stamp0

HasBoth(p) == Existed(<<p, "rs">>) /\ Existed(<<p, "md">>)

\* ------------------------------------------------------------------ claims

\* C1: a run that immediately follows a successful run, with no external
\* modification in between, succeeds, classifies every transform of both
\* directions as unneeded, schedules nothing and writes nothing; also when
\* the previous run's backdating was truncated to milliseconds.
C1_RerunDoesNothing ==
    (Done /\ hist.prevOk /\ hist.edited = {}) =>
        /\ Ok
        /\ Len(log) = Cardinality({f \in Files : Existed(f)})
        /\ \A n \in 1..Len(log) : log[n].res = "Unneeded"
        /\ src_inputs = <<>>
        /\ lit_inputs = <<>>
        /\ WroteNothing

\* A rerun over a pair whose target mtime is its origin's, truncated.
C1_Witness ==
    /\ Done /\ hist.prevOk /\ hist.edited = {} /\ Ok
    /\ \E f \in Files :
         /\ Existed(f)
         /\ fs[Target(f)] = ToMs(fs[f]) * TicksPerMs
         /\ fs[Target(f)] < fs[f]

\* Both files of pair p were modified after the previous, successful run,
\* and the run started with both of them newer than the stamp (by a
\* millisecond at least, so that the stamp is older at either precision).
BothEditedSinceStamp(p) ==
    /\ hist.prevOk
    /\ {<<p, "rs">>, <<p, "md">>} \subseteq hist.edited
    /\ ToMs(hist.fs0[<<p, "rs">>]) > ToMs(hist.stamp0)
    /\ ToMs(hist.fs0[<<p, "md">>]) > ToMs(hist.stamp0)

DivergenceRefused == CheckInputError("TangoStampOlderThanTarget") /\ WroteNothing

\* C2, as claimed: whenever both files of a pair were modified to mtimes
\* later than the stamp of the previous successful run (equal mtimes
\* included), the next run fails with TangoStampOlderThanTarget and writes
\* nothing.
C2_AsClaimed ==
    (Done /\ \E p \in Pairs : BothEditedSinceStamp(p)) => DivergenceRefused

\* C2, amended: the refusal is given when the two new mtimes are later than
\* the stamp at millisecond precision and differ from each other at
\* millisecond precision.
C2_RefusalOnDivergence ==
    (Done /\ \E p \in Pairs :
        /\ BothEditedSinceStamp(p)
        /\ ToMs(hist.fs0[<<p, "rs">>]) # ToMs(hist.fs0[<<p, "md">>]))
    => DivergenceRefused

\* C2, amended, the other half: with the two new mtimes equal at millisecond
\* precision (scenario S5) and no other file modified, the run succeeds and
\* writes nothing.
C2_EqualMtimesPass ==
    (Done /\ \E p \in Pairs :
        /\ BothEditedSinceStamp(p)
        /\ hist.edited = {<<p, "rs">>, <<p, "md">>}
        /\ ToMs(hist.fs0[<<p, "rs">>]) = ToMs(hist.fs0[<<p, "md">>]))
    => (Ok /\ WroteNothing)

\* Both files of a pair were edited after a successful run, to different
\* milliseconds after the stamp's, and the run has refused.
C2_Witness ==
    /\ Done
    /\ DivergenceRefused
    /\ \E p \in Pairs :
         /\ BothEditedSinceStamp(p)
         /\ ToMs(hist.fs0[<<p, "rs">>]) > ToMs(hist.fs0[<<p, "md">>])

\* A run started without a stamp over a tree that holds both files of pair p.
NoStampBoth(p) == hist.stamp0 = NonExistant /\ HasBoth(p)

NoHistoryRefused == CheckInputError("NoTangoStampExists") /\ WroteNothing

\* C3, as claimed: without a stamp, a pair with both files present makes the
\* run fail with NoTangoStampExists and write nothing, whatever the mtimes.
C3_AsClaimed ==
    (Done /\ \E p \in Pairs : NoStampBoth(p)) => NoHistoryRefused

\* C3, amended: the run is refused when the two mtimes of such a pair differ
\* at millisecond precision.
C3_NoRunHistory ==
    (Done /\ \E p \in Pairs :
        /\ NoStampBoth(p)
        /\ ToMs(hist.fs0[<<p, "rs">>]) # ToMs(hist.fs0[<<p, "md">>]))
    => NoHistoryRefused

\* The refusal happened on the literate side's turn, after the planner had
\* already enqueued another transform.
C3_Witness ==
    /\ Done
    /\ NoHistoryRefused
    /\ result.original[2] = "md"
    /\ Len(src_inputs) > 0
    /\ \E p \in Pairs :
         /\ NoStampBoth(p)
         /\ ToMs(hist.fs0[<<p, "rs">>]) < ToMs(hist.fs0[<<p, "md">>])

\* After the previous, successful run exactly the file f was modified, to an
\* mtime later (at millisecond precision) than its counterpart's.
OneSidedEdit(f) ==
    /\ hist.prevOk
    /\ hist.edited = {f}
    /\ Existed(f)
    /\ Existed(Target(f))
    /\ ToMs(hist.fs0[f]) > ToMs(hist.fs0[Target(f)])

\* C4, as claimed: after successful runs, a one-sided edit of an in-sync pair
\* makes the next run succeed, regenerate the counterpart with the edited
\* file's mtime (read here at millisecond precision) and leave the edited
\* file alone (runs cut short by conversion warnings are left aside).
C4_AsClaimed ==
    \A f \in Files :
        (Done /\ OneSidedEdit(f) /\ warned = {}) =>
            /\ Ok
            /\ ToMs(fs[Target(f)]) = ToMs(hist.fs0[f])
            /\ fs[f] = hist.fs0[f]

\* The newest mtime among the inputs the planner looked at in this run.
NewestObserved ==
    CHOOSE t \in {log[n].source_time : n \in 1..Len(log)} :
        \A n \in 1..Len(log) : log[n].source_time <= t

\* C5, as claimed, for a run that scheduled something: after a successful
\* run the stamp's mtime is the newest mtime of all inputs the planner
\* observed, scheduled or unneeded, and so no tracked file is newer than the
\* stamp (both read at millisecond precision).
C5_AsClaimed ==
    (Done /\ Ok /\ Scheduled # <<>>) =>
        /\ ToMs(stamp) = ToMs(NewestObserved)
        /\ \A f \in Files : fs[f] # NonExistant => ToMs(fs[f]) <= ToMs(stamp)

\* C6, as claimed: a successful run never leaves the stamp with an mtime
\* earlier than the one it had before the run (read at millisecond
\* precision).
C6_AsClaimed ==
    (Done /\ Ok /\ hist.stamp0 # NonExistant) => ToMs(stamp) >= ToMs(hist.stamp0)

\* The phases that follow planning and come before the verification has run.
AfterPlanning == {"generate_src", "generate_lit", "check_input_timestamps"}

\* C7, as claimed: when an external writer changes the mtime of a scheduled
\* transform's origin after planning and before the verification, the run
\* ends in ConcurrentUpdate with that path, the planning-time mtime and the
\* new mtime (runs cut short by conversion warnings are left aside).
C7_AsClaimed ==
    \A r \in touched :
        (Done /\ r.scheduled /\ r.at \in AfterPlanning /\ warned = {}) =>
            /\ result.kind = "ConcurrentUpdate"
            /\ result.path_buf = r.file
            /\ result.old_time = r.old_time
            /\ result.new_time = r.new_time

\* C8: after a successful run every target generated in it, in either
\* direction, has the mtime of its origin as captured at planning time, at
\* millisecond precision; and the engine wrote exactly those targets.
C8_Backdated ==
    (Done /\ Ok) =>
        /\ \A n \in 1..Len(Scheduled) :
             ToMs(fs[Target(Scheduled[n].original)]) = ToMs(Scheduled[n].source_time)
        /\ {written[n] : n \in 1..Len(written)} \ {STAMP}
             = {Target(Scheduled[n].original) : n \in 1..Len(Scheduled)}

\* A successful run that generated in both directions, one target of which
\* got its origin's mtime truncated.
C8_Witness ==
    /\ Done /\ Ok
    /\ src_inputs # <<>>
    /\ lit_inputs # <<>>
    /\ \E n \in 1..Len(Scheduled) :
         fs[Target(Scheduled[n].original)] # Scheduled[n].source_time

\* A run started without a stamp over a tree where no file has a counterpart.
FirstRunSourcesOnly ==
    /\ hist.stamp0 = NonExistant
    /\ \A f \in Files : Existed(f) => ~Existed(Target(f))

NewestAtStart ==
    CHOOSE t \in {hist.fs0[f] : f \in Files} : \A f \in Files : hist.fs0[f] <= t

\* C9, as claimed: such a run succeeds, gives every tracked file a
\* counterpart with the same mtime, creates the stamp with the maximum mtime
\* of the tracked files (if there is any) and leaves every pre-existing
\* file's mtime alone (the new mtimes read at millisecond precision).
C9_AsClaimed ==
    (Done /\ FirstRunSourcesOnly) =>
        /\ Ok
        /\ stamp # NonExistant
        /\ \A f \in Files : Existed(f) =>
             /\ fs[Target(f)] # NonExistant
             /\ ToMs(fs[Target(f)]) = ToMs(hist.fs0[f])
             /\ fs[f] = hist.fs0[f]
        /\ (\E f \in Files : Existed(f)) => ToMs(stamp) = ToMs(NewestAtStart)

\* C10, as claimed: when the conversion of a scheduled literate file yields
\* warnings, the run is not aborted: it ends in success, with that target
\* backdated to its origin's mtime.
C10_AsClaimed ==
    \A f \in warned :
        Done => (Ok /\ ToMs(fs[Target(f)]) = ToMs(hist.fs0[f]))

\* ---- error handling

\* The errors a run can return.
ErrorKinds == {"CheckInputError", "ConcurrentUpdate", "IoError", "MtimeError", "Warnings"}

\* C11, as claimed: whenever a run returns an error, the stamp file is as it
\* was before the run: the same mtime if it existed, still absent if it did
\* not.
C11_AsClaimed ==
    (Done /\ result.kind \in ErrorKinds) => stamp = hist.stamp0

\* Every error but a failure of the stamp's re-timing leaves the stamp as it was.
C11_BeforeStampRetiming ==
    (Done /\ result.kind \in ErrorKinds
          /\ ~(result.kind = "IoError" /\ result.at = "adjust_stamp_timestamp"))
    => stamp = hist.stamp0

\* ---- the planner's decisions

\* The decision table of the divergence check, read row by row: the outcome
\* for a source mtime, a target mtime state and a stamp state.
DecisionTable(s_mod, t_mod, stamp_time) ==
    IF t_mod = NonExistant THEN "Needed"
    ELSE IF t_mod > s_mod \/ ToMs(t_mod) = ToMs(s_mod) THEN "Unneeded"
    ELSE IF stamp_time = None THEN "NoTangoStampExists"
    ELSE IF ToMs(stamp_time) < ToMs(t_mod) THEN "TangoStampOlderThanTarget"
    ELSE "Needed"

\* C12: for every transform the planner submits, whatever its source mtime,
\* its target's state and the stamp's state, check_transform returns the
\* outcome of the decision table; it never returns TargetYoungerThanOriginal.
C12_DecisionTable ==
    \A n \in 1..Len(log) :
        /\ log[n].res = DecisionTable(log[n].source_time, log[n].target_time, orig_stamp)
        /\ log[n].res # "TargetYoungerThanOriginal"

\* A run with a stamp where one transform overwrites an older target and a
\* later one is refused because its target is newer than the stamp.
C12_Witness ==
    /\ Done
    /\ CheckInputError("TangoStampOlderThanTarget")
    /\ \E n \in 1..Len(log) : log[n].res = "Needed" /\ log[n].target_time # NonExistant

\* The rows of the table, each as met by the planner.
C12_RowCoarseMatch ==
    \E n \in 1..Len(log) :
        /\ log[n].res = "Unneeded"
        /\ log[n].target_time < log[n].source_time

C12_RowTargetNewer ==
    \E n \in 1..Len(log) :
        /\ log[n].res = "Unneeded"
        /\ log[n].target_time > log[n].source_time
        /\ ToMs(log[n].target_time) = ToMs(log[n].source_time)

C12_RowNoStamp ==
    \E n \in 1..Len(log) : log[n].res = "NoTangoStampExists"

C12_RowStampPrecision ==
    \E n \in 1..Len(log) :
        /\ log[n].res = "Needed"
        /\ log[n].warn = "stamp_target_ns"

C12_RowNeededAbsent ==
    \E n \in 1..Len(log) :
        /\ log[n].res = "Needed"
        /\ log[n].target_time = NonExistant
        /\ orig_stamp # None

\* C13: every transform the planner has enqueued in src_inputs or
\* lit_inputs has an absent target, or a target mtime not newer than its
\* source mtime at millisecond precision; and when the stamp and the target
\* exist, the target mtime is not newer than the stamp's at millisecond
\* precision.
C13_SchedulingInvariant ==
    \A n \in 1..Len(Scheduled) :
        Scheduled[n].target_time # NonExistant =>
            /\ ToMs(Scheduled[n].target_time) <= ToMs(Scheduled[n].source_time)
            /\ orig_stamp # None =>
                   ToMs(Scheduled[n].target_time) <= ToMs(orig_stamp)

\* An enqueued transform whose target is newer than the stamp, but only
\* within the stamp's millisecond.
C13_Witness ==
    \E n \in 1..Len(Scheduled) :
        /\ Scheduled[n].target_time # NonExistant
        /\ orig_stamp # None
        /\ orig_stamp < Scheduled[n].target_time
        /\ Scheduled[n].original[2] = "md"

\* C14: planning of both trees is over before the first write of the
\* generate phase: while the planner works nothing has been written, and a
\* run that fails with CheckInputError, for whichever pair and however many
\* transforms were enqueued before, has created, truncated or re-timed no
\* target file and no stamp file.
C14_PlanningErrorsWriteNothing ==
    /\ pc \in {"gather_rs", "gather_md"} => WroteNothing
    /\ (Done /\ result.kind = "CheckInputError") => WroteNothing

\* The refusal came for the last file of the walk of the literate tree, after
\* the planner had enqueued a transform.
C14_Witness ==
    /\ Done
    /\ CheckInputError("TangoStampOlderThanTarget")
    /\ result.original = <<WalkOrder[Len(WalkOrder)], "md">>
    /\ Len(Scheduled) > 0
    /\ WroteNothing

\* ---- races

\* The previous run ended in ConcurrentUpdate for a scheduled origin, and no
\* external writer has touched anything since.
AfterDetectedRace == hist.prevRace # <<>> /\ touched = {}

\* C15, as claimed: the run that follows a run failed with ConcurrentUpdate,
\* with no further external edit, succeeds and leaves the target of the
\* modified origin regenerated from it, that is with the origin's new mtime
\* (read at millisecond precision; runs cut short by conversion warnings are
\* left aside).
C15_AsClaimed ==
    (Done /\ AfterDetectedRace /\ warned = {}) =>
        /\ Ok
        /\ ToMs(fs[Target(hist.prevRace)]) = ToMs(fs[hist.prevRace])

\* The planner sampled the mtime of r's file as an input before the external
\* write r changed it.
SampledBefore(r) ==
    \E n \in 1..Len(log) :
        /\ log[n].original = r.file
        /\ log[n].source_time = r.old_time

\* C16, as claimed: when the mtime of an input changes after the planner has
\* sampled it, whether its transform was scheduled or classified unneeded,
\* a run that gets as far as the verification fails with ConcurrentUpdate.
C16_AsClaimed ==
    \A r \in touched :
        (Done /\ result.kind \in {"Ok", "ConcurrentUpdate"} /\ SampledBefore(r))
        => result.kind = "ConcurrentUpdate"

\* The same for scheduled inputs only, with a single external write.
C16_ScheduledResampled ==
    \A r \in touched :
        (Done /\ result.kind \in {"Ok", "ConcurrentUpdate"} /\ SampledBefore(r)
              /\ r.scheduled /\ Cardinality(touched) = 1)
        => (result.kind = "ConcurrentUpdate" /\ result.path_buf = r.file)

\* A step of generate_content that has generated a target and gone through
\* what follows the conversion.
Generated ==
    /\ pc \in {"generate_src", "generate_lit"}
    /\ Len(written') = Len(written) + 1
    /\ warned' = warned

\* The target just generated and its origin have different mtimes at
\* millisecond precision.
GeneratedOutOfStep ==
    LET g == written'[Len(written')]
    IN  ToMs(fs'[g]) # ToMs(fs'[Target(g)])

\* C17, as claimed: after generating a target, in either direction, the
\* engine asserts that the origin's and the target's mtimes are equal at
\* millisecond precision: the run does not go on past a pair for which they
\* differ.
C17_AsClaimed ==
    [][(Generated /\ GeneratedOutOfStep) => result'.kind = "panic"]_vars

\* C17, amended: the read-back is made after a literate-to-source transform
\* only: there a difference at millisecond precision stops the run in the
\* assertion; a source-to-literate target is backdated and never read back.
C17_ReadBackLitOnly ==
    [][Generated =>
          (result'.kind = "panic" <=> (pc = "generate_lit" /\ GeneratedOutOfStep))]_vars

\* A run that generated in both directions and was stopped by the assertion
\* of the second loop.
C17_Witness ==
    /\ Done
    /\ result.kind = "panic"
    /\ src_inputs # <<>>
    /\ Len(written) = Len(src_inputs) + 1

\* ---- warnings of the planner

\* C18, as claimed: the planner gives the 'timestamps differ only at
\* nanosecond level precision' warning for a source and a target only when
\* their mtimes are equal at millisecond precision and differ at nanosecond
\* precision; for exactly equal mtimes the pair is unneeded without warning.
C18_AsClaimed ==
    \A n \in 1..Len(log) :
        log[n].warn = "source_target_ns" =>
            /\ ToMs(log[n].source_time) = ToMs(log[n].target_time)
            /\ log[n].source_time # log[n].target_time

\* What does hold: the warning goes with the outcome unneeded, and with
\* mtimes equal at millisecond precision.
C18_WarningOnCoarseOrExactMatch ==
    \A n \in 1..Len(log) :
        log[n].warn = "source_target_ns" <=>
            /\ log[n].target_time # NonExistant
            /\ log[n].target_time <= log[n].source_time
            /\ ToMs(log[n].source_time) = ToMs(log[n].target_time)

\* ---- the writes of a run

ScheduledTargets == {Target(Scheduled[n].original) : n \in 1..Len(Scheduled)}

WrittenSet == {written[n] : n \in 1..Len(written)}

\* The pairs the planner looked at and found nothing to do for.
UnneededPairs ==
    {p \in Pairs :
        /\ \E n \in 1..Len(log) : log[n].original[1] = p
        /\ \A n \in 1..Len(log) : log[n].original[1] = p => log[n].res = "Unneeded"}

\* The engine has left file f alone.
Kept(f) == f \notin WrittenSet /\ fs[f] = hist.fs0[f]

\* C19: a successful run creates or modifies only the targets of the
\* transforms it scheduled and the stamp file; the origin of every scheduled
\* transform and both files of every pair classified unneeded are left as
\* they were, and so is every other tracked file.
C19_WriteSet ==
    (Done /\ Ok) =>
        /\ WrittenSet \subseteq ScheduledTargets \cup {STAMP}
        /\ \A n \in 1..Len(Scheduled) : Kept(Scheduled[n].original)
        /\ \A p \in UnneededPairs : Kept(<<p, "rs">>) /\ Kept(<<p, "md">>)
        /\ \A f \in Files \ ScheduledTargets : Kept(f)

\* A successful run that regenerated an existing target for one pair, found
\* the other pair (both files present) in no need of anything, and re-timed
\* the stamp.
C19_Witness ==
    /\ Done /\ Ok
    /\ \E n \in 1..Len(Scheduled) : Scheduled[n].target_time # NonExistant
    /\ \E p \in UnneededPairs : HasBoth(p)
    /\ STAMP \in WrittenSet

\* The a-th write of the run is a write of the stamp file.
StampWrite(a) == written[a] = STAMP

\* The a-th write of the run is the generation of a target of kind k.
TargetWrite(a, k) == written[a] # STAMP /\ written[a][2] = k

\* C20: in every run the targets of source-to-literate transforms (.md) are
\* all written before any target of a literate-to-source transform (.rs); the
\* stamp is neither created nor re-timed before the verification of the
\* scheduled origins has passed; and no write follows the re-timing of the
\* stamp, which is the last write of a successful run that re-times it.
C20_WriteOrder ==
    /\ \A a, b \in 1..Len(written) :
          a < b => /\ ~(TargetWrite(a, "rs") /\ TargetWrite(b, "md"))
                   /\ ~(StampWrite(a) /\ ~StampWrite(b))
    /\ STAMP \in WrittenSet =>
          /\ pc \in {"adjust_stamp_timestamp", "done"}
          /\ result.kind \in {"none", "Ok"}
          /\ FirstChanged = 0
    /\ (Done /\ Ok /\ newest_stamp # None) => StampWrite(Len(written))

\* A successful first run that generated in both directions, created the
\* stamp and re-timed it.
C20_Witness ==
    /\ Done /\ Ok
    /\ src_inputs # <<>>
    /\ lit_inputs # <<>>
    /\ Len(written) = Len(Scheduled) + 2
    /\ TargetWrite(1, "md")
    /\ StampWrite(Len(written) - 1)

\* ---- one direction per pair

\* C21: with no modification of the tree during planning, at most one of the
\* transforms x.rs to x.md and x.md to x.rs is enqueued for a pair: no file
\* is both an origin and a target of the generate phase, and so no generated
\* file is the origin of another transform of the run.
C21_OneDirectionPerPair ==
    /\ \A a, b \in 1..Len(Scheduled) :
          Scheduled[a].original # Target(Scheduled[b].original)
    /\ \A p \in Pairs :
          Cardinality({n \in 1..Len(Scheduled) : Scheduled[n].original[1] = p}) <= 1

\* A run that regenerates existing targets for both pairs, one in each
\* direction.
C21_Witness ==
    /\ Done /\ Ok
    /\ Len(src_inputs) = 1
    /\ Len(lit_inputs) = 1
    /\ \A n \in 1..Len(Scheduled) : Scheduled[n].target_time # NonExistant

\* ---- runs with nothing to do

\* The planner has gone through both trees and classified every transform
\* unneeded.
AllUnneeded ==
    /\ pc \notin {"idle", "gather_rs", "gather_md"}
    /\ \A n \in 1..Len(log) : log[n].res = "Unneeded"

\* C22: a run started with an existing stamp in which every transform is
\* classified unneeded succeeds and leaves the stamp's mtime as it was:
\* newest_stamp stays None, no target file is written.
C22_NoOpKeepsStamp ==
    (hist.stamp0 # NonExistant /\ AllUnneeded) =>
        /\ newest_stamp = None
        /\ WroteNothing
        /\ Done => Ok

\* A run with nothing to do although a file was edited since the last
\* successful run: the edit stayed within the millisecond of its counterpart.
C22_Witness ==
    /\ Done /\ Ok
    /\ hist.stamp0 # NonExistant
    /\ AllUnneeded
    /\ hist.edited # {}
    /\ \E n \in 1..Len(log) : log[n].target_time > log[n].source_time

\* ---- files that are not there

\* The external write r removed the origin of a scheduled transform after its
\* target had been generated, and the origin is still gone.
OriginGone(r) ==
    /\ r.new_time = NonExistant
    /\ r.scheduled
    /\ fs[r.file] = NonExistant
    /\ Target(r.file) \in WrittenSet
    /\ \/ r.at = "check_input_timestamps"
       \/ r.at = "generate_lit" /\ r.file[2] = "rs"

\* C23, as claimed: when the origin of a scheduled transform has been deleted
\* after its target was generated, so that check_input_timestamps finds it
\* gone, the run does not return success and does not advance the stamp.
C23_AsClaimed ==
    \A r \in touched :
        (Done /\ OriginGone(r)) => (~Ok /\ stamp = hist.stamp0)

\* The walk of this run met a link to nothing: an entry for a file that does
\* not exist.
MetDanglingLink ==
    \E f \in links : hist.fs0[f] = NonExistant /\ fs[f] = NonExistant

\* C24, as claimed: a run whose walk yields an entry for a file that does not
\* exist goes on to a normal outcome, success or a typed Error; it does not
\* panic.
C24_AsClaimed ==
    (Done /\ MetDanglingLink) => result.kind \in ErrorKinds \cup {"Ok"}

====
